---- MODULE Spec2Model ----
(***************************************************************************)
(* Model of src/src/MPC.cpp: the horizon layout globals, FG_eval's cost    *)
(* and constraint evaluation, and MPC::Solve around the external solver.   *)
(*                                                                         *)
(* Reals are integers in units of 1e-6 (0.436332 is 436332, 1.0 is         *)
(* 1000000).  C++ vectors are functions on 0..n-1, so every index below is *)
(* the index the source writes.  cos, sin, atan and the polynomial are not *)
(* computable here: a dynamics residual and a cost term are kept as the    *)
(* term the source builds (which entries of vars it reads), not a number.  *)
(*                                                                         *)
(* CppAD::ipopt::solve is outside the repository.  It is modelled as a     *)
(* caller of FG_eval on iterates of its choice that finally hands back the *)
(* last iterate with a status; it reports success only for an iterate that *)
(* respects the variable bounds and the constraint bounds it was given     *)
(* (the t = 0 rows, whose value is a number here).  Under either status    *)
(* the vector it hands back has n_vars entries.                            *)
(***************************************************************************)
EXTENDS Integers, Sequences, FiniteSets, TLC

VARIABLES
    N, dt, idxX, idxY, idxPsi, idxV, idxCTE, idxEpsi, idxDelta, idxA, ref_v,
    pc, state, coeffs,
    n_vars, n_constraints, vars, vars_lowerbound, vars_upperbound,
    constraints_lowerbound, constraints_upperbound, fg_coeffs,
    iterate, fg, fg_log, solution, ok, return_val

globals == <<N, dt, idxX, idxY, idxPsi, idxV, idxCTE, idxEpsi, idxDelta, idxA, ref_v>>
problem == <<n_vars, n_constraints, vars, vars_lowerbound, vars_upperbound,
             constraints_lowerbound, constraints_upperbound, fg_coeffs>>
evaluation == <<iterate, fg, fg_log>>
vars_all == <<globals, pc, state, coeffs, problem, evaluation, solution, ok, return_val>>

----------------------------------------------------------------------------
(* Bounds of the model and constants of the program *)

\* horizons 1..MaxN are explored next to the source's own N
MaxN == 4
\* size_t N = 10
N_src == 10
\* double dt = 0.1, in units of 1e-6
dt_src == 100000
\* const double Lf = 2.67, in units of 1e-6
Lf == 2670000
\* double ref_v = 100 (used unscaled inside the cost term)
ref_v_src == 100
\* 0.436332 rad
SteerBound == 436332
\* 1.0
AccelBound == 1000000
\* 1e23 in the source; kept as 2^31 - 1, above every value a vector of the
\* model holds
StateBound == 2147483647

Horizons == (1..MaxN) \cup {N_src}

\* a tuple literal as a C++ vector (index 0 first)
Vec(s) == [i \in 0..(Len(s) - 1) |-> s[i + 1]]

\* state = (X, Y, Psi, V, CTE, Epsi): the spec's scenarios A and B, a pose
\* with six different components, and an extreme speed
StateInputs ==
    { Vec(<<0, 0, 0, 50000000, 0, 0>>),
      Vec(<<0, 1000000, 0, 50000000, 1000000, 0>>),
      Vec(<<-1500000, 2500000, 300000, 42000000, -700000, 90000>>),
      Vec(<<0, 0, 0, 2000000000, 0, 0>>) }

CoeffInputs ==
    { Vec(<<0, 0, 0, 0>>), Vec(<<1000000, -20000, 3000, -40>>) }

\* contents of freshly allocated memory
Garbage == {0, 777, -5000000}

\* the solver's iterates are built from these
Seeds == {1, 1000, -100000}

Unset == [i \in {} |-> 0]

----------------------------------------------------------------------------
(* Horizon layout: MPC.cpp lines 26-35 *)

InitIdxX(n) == 0
InitIdxY(n, x) == x + n
InitIdxPsi(n, y) == y + n
InitIdxV(n, p) == p + n
InitIdxCTE(n, v) == v + n
InitIdxEpsi(n, c) == c + n
InitIdxDelta(n, e) == e + n
InitIdxA_OffByOne(n, d) == d + n
InitIdxA(n, d) == d + n - 1

StateBlocks == <<"x", "y", "psi", "v", "cte", "epsi">>
Blocks == StateBlocks \o <<"delta", "a">>

\* where a block starts, from the globals
Off(b) ==
    CASE b = "x" -> idxX
      [] b = "y" -> idxY
      [] b = "psi" -> idxPsi
      [] b = "v" -> idxV
      [] b = "cte" -> idxCTE
      [] b = "epsi" -> idxEpsi
      [] b = "delta" -> idxDelta
      [] b = "a" -> idxA

Init ==
    /\ N \in Horizons
    /\ dt = dt_src
    /\ idxX = InitIdxX(N)
    /\ idxY = InitIdxY(N, idxX)
    /\ idxPsi = InitIdxPsi(N, idxY)
    /\ idxV = InitIdxV(N, idxPsi)
    /\ idxCTE = InitIdxCTE(N, idxV)
    /\ idxEpsi = InitIdxEpsi(N, idxCTE)
    /\ idxDelta = InitIdxDelta(N, idxEpsi)
    /\ idxA = InitIdxA(N, idxDelta)
    /\ ref_v = ref_v_src
    /\ pc = "start"
    /\ state = Unset /\ coeffs = Unset
    /\ n_vars = 0 /\ n_constraints = 0
    /\ vars = Unset /\ vars_lowerbound = Unset /\ vars_upperbound = Unset
    /\ constraints_lowerbound = Unset /\ constraints_upperbound = Unset
    /\ fg_coeffs = Unset
    /\ iterate = Unset /\ fg = Unset /\ fg_log = <<>>
    /\ solution = [status |-> "none", x |-> Unset]
    /\ ok = TRUE
    /\ return_val = <<>>

----------------------------------------------------------------------------
(* MPC::MPC() {} : line 135.  Nothing is read, checked or written. *)

MPC_ctor ==
    /\ pc = "start"
    /\ pc' = "idle"
    /\ UNCHANGED <<globals, state, coeffs, problem, evaluation, solution, ok, return_val>>

----------------------------------------------------------------------------
(* MPC::Solve, lines 138-217: sizes, initial guess, bounds *)

\* Dvector v(n): n elements of unspecified content
Alloc(n, g) == [i \in 0..(n - 1) |-> g]

\* for (uint i = lo; i < hi; i++) v[i] = c;
Fill(v, lo, hi, c) == [i \in DOMAIN v |-> IF lo <= i /\ i < hi THEN c ELSE v[i]]

\* v[i] = c;
Put(v, i, c) == [j \in DOMAIN v |-> IF j = i THEN c ELSE v[j]]

\* six assignments v[idxX] = x; ... v[idxEpsi] = epsi;  (x = state[0], ...)
PutState(v, st) ==
    Put(Put(Put(Put(Put(Put(v, idxX, st[0]), idxY, st[1]), idxPsi, st[2]),
        idxV, st[3]), idxCTE, st[4]), idxEpsi, st[5])

\* line 156
NVars(n) == n * 6 + (n - 1) * 2
\* line 158
NConstraints(n) == n * 6

\* lines 162-165 without the zeroing loop
ZeroVars_Skipped(v, n) == v
\* lines 163-165
ZeroVars(v, n) == Fill(v, 0, n, 0)

\* lines 162-172
InitialGuess(n, g, st) == PutState(ZeroVars(Alloc(n, g), n), st)

\* lines 174-191, lower bounds
VarsLower(n, g) ==
    Fill(Fill(Fill(Alloc(n, g), 0, idxDelta, -StateBound),
              idxDelta, idxA, -SteerBound), idxA, n, -AccelBound)

\* lines 174-191, upper bounds
VarsUpper(n, g) ==
    Fill(Fill(Fill(Alloc(n, g), 0, idxDelta, StateBound),
              idxDelta, idxA, SteerBound), idxA, n, AccelBound)

\* lines 195-207
ConstraintsLower(m, g, st) == PutState(Fill(Alloc(m, g), 0, m, 0), st)

\* lines 196-214 with the last upper assignment missing
ConstraintsUpper_NoEpsi(m, g, st) ==
    Put(PutState(Fill(Alloc(m, g), 0, m, 0), st), idxEpsi, 0)
\* lines 196-214
ConstraintsUpper(m, g, st) == PutState(Fill(Alloc(m, g), 0, m, 0), st)

Solve_Build ==
    /\ pc \in {"idle", "returned"}
    /\ \E st \in StateInputs, co \in CoeffInputs, g \in Garbage :
         /\ state' = st
         /\ coeffs' = co
         /\ n_vars' = NVars(N)
         /\ n_constraints' = NConstraints(N)
         /\ vars' = InitialGuess(n_vars', g, st)
         /\ vars_lowerbound' = VarsLower(n_vars', g)
         /\ vars_upperbound' = VarsUpper(n_vars', g)
         /\ constraints_lowerbound' = ConstraintsLower(n_constraints', g, st)
         /\ constraints_upperbound' = ConstraintsUpper(n_constraints', g, st)
         /\ fg_coeffs' = co
    /\ iterate' = Unset /\ fg' = Unset /\ fg_log' = <<>>
    /\ solution' = [status |-> "none", x |-> Unset]
    /\ ok' = TRUE
    /\ pc' = "built"
    /\ UNCHANGED <<globals, return_val>>

----------------------------------------------------------------------------
(* FG_eval::operator(), lines 47-129.  The body is the sequence of its      *)
(* statements in execution order; each names the entry of fg it assigns and *)
(* every entry of vars it reads, as the block the source names (idxCTE,     *)
(* idxDelta, ...) and the index that expression evaluates to.               *)

\* vars[idx<b> + k]
R(b, k) == [block |-> b, idx |-> Off(b) + k]

\* for (uint t = lo; t < hi; t++) Body(t)
ForLoop(lo, hi, Body(_)) ==
    LET F[t \in lo..hi] == IF t >= hi THEN <<>> ELSE Body(t) \o F[t + 1]
    IN  IF lo >= hi THEN <<>> ELSE F[lo]

\* fg[0] += w * pow(..., 2)
CostAdd(w, kind, reads) ==
    [target |-> 0, op |-> "add", kind |-> kind, w |-> w, reads |-> reads]

\* lines 56-60
TrackingBody(t) ==
    << CostAdd(800, "sq", <<R("cte", t)>>),
       CostAdd(800, "sq", <<R("epsi", t)>>),
       CostAdd(1, "sq_minus_ref_v", <<R("v", t)>>) >>

\* lines 63-67
EffortBody(t) ==
    << CostAdd(450, "sq_product", <<R("delta", t), R("v", t)>>),
       CostAdd(20, "sq", <<R("delta", t)>>),
       CostAdd(1, "sq", <<R("a", t)>>) >>

\* lines 70-73
SmoothnessBody(t) ==
    << CostAdd(1, "sq_difference", <<R("delta", t + 1), R("delta", t)>>),
       CostAdd(1, "sq_difference", <<R("a", t + 1), R("a", t)>>) >>

\* line 63: t < N - 1
EffortHi(n) == n - 1
\* line 70 with the bound of line 63
SmoothnessHi_AsEffort(n) == n - 1
\* line 70: t < N - 2
SmoothnessHi(n) == n - 2
\* line 70: N - 2 is size_t arithmetic; below 2 it wraps to a bound no uint t
\* reaches, and the loop reads past the end of vars
SmoothnessWraps(n) == n < 2

\* lines 84-89: fg[1 + idx<b>] = vars[idx<b>]
InitRow_NextStep(b) ==
    [target |-> 1 + Off(b), op |-> "set", kind |-> "init", row |-> b,
     reads |-> <<R(b, 1)>>]
InitRow(b) ==
    [target |-> 1 + Off(b), op |-> "set", kind |-> "init", row |-> b,
     reads |-> <<R(b, 0)>>]

InitRows ==
    << InitRow("x"), InitRow("y"), InitRow("psi"),
       InitRow("v"), InitRow("cte"), InitRow("epsi") >>

\* lines 100, 103-104 without the latency branch
DeltaUsed_NoLatency(t) == R("delta", t - 1)
\* lines 100, 103-104: the entry delta0 holds when the residuals are formed
DeltaUsed(t) == IF t > 1 THEN R("delta", t - 2) ELSE R("delta", t - 1)
\* lines 101, 103, 105: the entry a0 holds when the residuals are formed
AUsed(t) == IF t > 1 THEN R("a", t - 2) ELSE R("a", t - 1)

\* lines 93-101, 103-106, 115-120: the loads of one iteration
DynLoads(t) ==
    << R("x", t - 1), R("y", t - 1), R("psi", t - 1), R("v", t - 1),
       R("cte", t - 1), R("epsi", t - 1), R("delta", t - 1), R("a", t - 1) >>
    \o (IF t > 1 THEN << R("delta", t - 2), R("a", t - 2) >> ELSE <<>>)
    \o << R("x", t), R("y", t), R("psi", t), R("v", t), R("cte", t), R("epsi", t) >>

\* fg[1 + idx<b> + t] = <b>1 - (...)
DynRow(b, t, prev, act) ==
    [target |-> 1 + Off(b) + t, op |-> "set", kind |-> "dyn", row |-> b, t |-> t,
     next |-> R(b, t), prev |-> prev, act |-> act, reads |-> <<>>]

\* lines 91-128, one iteration
DynBody(t) ==
    << [target |-> -1, op |-> "load", kind |-> "load", reads |-> DynLoads(t)],
       \* line 122: x1 - (x0 + v0 * cos(psi0) * dt)
       DynRow("x", t, <<R("x", t - 1), R("v", t - 1), R("psi", t - 1)>>, <<>>),
       \* line 123: y1 - (y0 + v0 * sin(psi0) * dt)
       DynRow("y", t, <<R("y", t - 1), R("v", t - 1), R("psi", t - 1)>>, <<>>),
       \* line 124: psi1 - (psi0 - v0/Lf * delta0 * dt)
       DynRow("psi", t, <<R("psi", t - 1), R("v", t - 1)>>, <<DeltaUsed(t)>>),
       \* line 125: v1 - (v0 + a0 * dt)
       DynRow("v", t, <<R("v", t - 1)>>, <<AUsed(t)>>),
       \* line 126: cte1 - ((f0 - y0) + (v0 * sin(epsi0) * dt)), f0 from x0
       DynRow("cte", t, <<R("x", t - 1), R("y", t - 1), R("v", t - 1),
                          R("epsi", t - 1)>>, <<>>),
       \* line 127: epsi1 - ((psi0 - psides0) - v0/Lf * delta0 * dt), psides0 from x0
       DynRow("epsi", t, <<R("psi", t - 1), R("x", t - 1), R("v", t - 1)>>,
              <<DeltaUsed(t)>>) >>

\* the statements of one call, in order (n >= 2)
FG_statements(n) ==
    << [target |-> 0, op |-> "set", kind |-> "zero", reads |-> <<>>] >>
    \o ForLoop(0, n, TrackingBody)
    \o ForLoop(0, EffortHi(n), EffortBody)
    \o ForLoop(0, SmoothnessHi(n), SmoothnessBody)
    \o InitRows
    \o ForLoop(1, n, DynBody)

\* every read of vars one call makes
FG_reads(log) ==
    UNION { {log[k].reads[j] : j \in 1..Len(log[k].reads)} : k \in 1..Len(log) }

\* the statements of log that assign entry i of fg, by position
FG_writers(log, i) == {k \in 1..Len(log) : log[k].op # "load" /\ log[k].target = i}

\* every entry of fg one call assigns
FG_writes(log) == {log[k].target : k \in {j \in 1..Len(log) : log[j].op # "load"}}

Last(ks) == CHOOSE k \in ks : \A j \in ks : j <= k

\* the cost after the statements ks ran: the terms added since fg[0] = 0
CostOf(log, ks) ==
    LET zeros == {k \in ks : log[k].kind = "zero"}
        from  == IF zeros = {} THEN 0 ELSE Last(zeros)
        Term(s) == [w |-> s.w, kind |-> s.kind, reads |-> s.reads]
        added == SelectSeq([k \in 1..Len(log) |-> IF k \in ks /\ k > from THEN <<Term(log[k])>> ELSE <<>>],
                           LAMBDA e : e # <<>>)
    IN  [kind |-> "cost", zeroed |-> zeros # {}, terms |-> [k \in 1..Len(added) |-> added[k][1]]]

\* what a constraint row holds after statement s: a number for a t = 0 row,
\* the residual's term for a dynamics row
Assigned(s, v) ==
    IF s.kind = "init"
    THEN [kind |-> "init", val |-> v[s.reads[1].idx]]
    ELSE [kind |-> "dyn", row |-> s.row, t |-> s.t, next |-> s.next,
          prev |-> s.prev, act |-> s.act]

\* fg after the statements of log ran on v; f0 is fg as the solver passed it in.
\* Entry 0 accumulates; every other entry holds what its last assignment left
FG_result(log, v, f0) ==
    [i \in DOMAIN f0 |->
        LET ks == FG_writers(log, i)
        IN  IF ks = {} THEN f0[i]
            ELSE IF i = 0 THEN CostOf(log, ks)
            ELSE Assigned(log[Last(ks)], v)]

----------------------------------------------------------------------------
(* CppAD::ipopt::solve, called at lines 241-243 *)

\* an iterate before projection: entry i holds s * (i + 1)
Raw(s) == [i \in 0..(n_vars - 1) |-> s * (i + 1)]

Clip(c, lo, hi) == IF c < lo THEN lo ELSE IF c > hi THEN hi ELSE c

\* projected onto the variable bounds handed to the solver
Project(x) == [i \in DOMAIN x |-> Clip(x[i], vars_lowerbound[i], vars_upperbound[i])]

\* with the t = 0 rows moved into the constraint bounds handed to the solver
Pin(x) ==
    [i \in DOMAIN x |->
        IF i \in {idxX, idxY, idxPsi, idxV, idxCTE, idxEpsi}
        THEN Clip(x[i], constraints_lowerbound[i], constraints_upperbound[i])
        ELSE x[i]]

\* the points the solver may evaluate: the initial guess first among them
Iterates ==
    {vars} \cup {Raw(s) : s \in Seeds} \cup {Project(Raw(s)) : s \in Seeds}
           \cup {Pin(Project(Raw(s))) : s \in Seeds}

\* fg as the solver allocates it: the cost and one entry per constraint
FreshFG == [i \in 0..n_constraints |-> [kind |-> "fresh"]]

\* one call fg_eval(fg, vars) by the solver
FG_eval_call ==
    /\ pc \in {"built", "evaluated"}
    /\ ~SmoothnessWraps(N)
    /\ fg_log' = FG_statements(N)
    /\ \E x \in Iterates :
         /\ iterate' = x
         /\ fg' = FG_result(fg_log', x, FreshFG)
    /\ pc' = "evaluated"
    /\ UNCHANGED <<globals, state, coeffs, problem, solution, ok, return_val>>

\* the same call when the smoothness bound has wrapped: the reads run off the
\* end of vars; the process dies, or goes on with whatever fg then holds
FG_eval_undefined ==
    /\ pc \in {"built", "evaluated"}
    /\ SmoothnessWraps(N)
    /\ \E x \in Iterates : iterate' = x
    /\ fg' = FreshFG
    /\ fg_log' = <<>>
    /\ pc' \in {"crashed", "evaluated"}
    /\ UNCHANGED <<globals, state, coeffs, problem, solution, ok, return_val>>

\* lower <= g(x) <= upper on the rows whose value is a number
WithinConstraintBounds(f) ==
    \A i \in 0..(n_constraints - 1) :
        f[1 + i].kind = "init" =>
            /\ constraints_lowerbound[i] <= f[1 + i].val
            /\ f[1 + i].val <= constraints_upperbound[i]

WithinVarBounds(x) ==
    \A i \in DOMAIN x : vars_lowerbound[i] <= x[i] /\ x[i] <= vars_upperbound[i]

\* the solver returns: solution.x is the last iterate; success is reported only
\* for a point within all the bounds the solver was given
Solver_return ==
    /\ pc = "evaluated"
    /\ \E st \in {"success", "failure"} :
         /\ st = "success" => WithinVarBounds(iterate) /\ WithinConstraintBounds(fg)
         /\ solution' = [status |-> st, x |-> iterate]
    /\ pc' = "solved"
    /\ UNCHANGED <<globals, state, coeffs, problem, evaluation, ok, return_val>>

----------------------------------------------------------------------------
(* MPC::Solve, lines 245-266: status check and the returned vector *)

\* line 258: the entry returned first
SteeringIdx_LastState == idxDelta - 1
SteeringIdx == idxDelta
\* line 259: the entry returned second
AccelIdx == idxA
\* line 262 with t in place of t + 1
PathXIdx_FromZero(t) == idxX + t
\* line 262
PathXIdx(t) == idxX + t + 1
\* line 263
PathYIdx(t) == idxY + t + 1

\* solution.x[i]; outside the vector the read yields whatever lies there
ReadX(i, g) == IF i \in DOMAIN solution.x THEN solution.x[i] ELSE g

\* lines 257-264
ReturnVal(n, g) ==
    <<ReadX(SteeringIdx, g), ReadX(AccelIdx, g)>>
    \o ForLoop(0, n - 1, LAMBDA t : <<ReadX(PathXIdx(t), g), ReadX(PathYIdx(t), g)>>)

\* line 246 ... line 266: ok is computed and never read again
Solve_Extract ==
    /\ pc = "solved"
    /\ ok' = (ok /\ solution.status = "success")
    /\ \E g \in Garbage : return_val' = ReturnVal(N, g)
    /\ pc' = "returned"
    /\ UNCHANGED <<globals, state, coeffs, problem, evaluation, solution>>

Next ==
    \/ MPC_ctor
    \/ Solve_Build
    \/ FG_eval_call
    \/ FG_eval_undefined
    \/ Solver_return
    \/ Solve_Extract

Spec == Init /\ [][Next]_vars_all

----------------------------------------------------------------------------
(* Properties *)

Max(a, b) == IF a >= b THEN a ELSE b

\* the length the layout gives a block: N per state block, N - 1 per actuator
BlockLen(b) == IF b \in {"delta", "a"} THEN N - 1 ELSE N
BlockRange(b) == Off(b)..(Off(b) + BlockLen(b) - 1)
BlockNames == {Blocks[k] : k \in 1..Len(Blocks)}

\* the t = 0 index of the k-th state component (k from 0)
T0(k) == Off(StateBlocks[k + 1])
T0Indices == {T0(k) : k \in 0..5}
StateAt(i) == state[CHOOSE k \in 0..5 : T0(k) = i]

InCall == pc \in {"built", "evaluated", "solved", "returned"}

\* C1: when the solver reports a status other than success, what Solve returns
\* is not an ordinary actuator command built from the failed solution vector.
C1_FailureSurfaced ==
    (pc = "returned" /\ N >= 2 /\ solution.status # "success") =>
        ~ ( /\ Len(return_val) >= 2
            /\ return_val[1] = solution.x[idxDelta]
            /\ return_val[2] = solution.x[idxA] )

\* C2: for N >= 2, after a successful solve whose vector respects the variable
\* bounds, the first returned value lies in the steering bounds and the second
\* in the acceleration bounds, and the two indices read carry those bounds.
C2_CommandWithinActuatorBounds ==
    (pc = "returned" /\ N >= 2 /\ solution.status = "success"
        /\ WithinVarBounds(solution.x)) =>
        /\ -SteerBound <= return_val[1] /\ return_val[1] <= SteerBound
        /\ -AccelBound <= return_val[2] /\ return_val[2] <= AccelBound
        /\ vars_lowerbound[SteeringIdx] = -SteerBound
        /\ vars_upperbound[SteeringIdx] = SteerBound
        /\ vars_lowerbound[AccelIdx] = -AccelBound
        /\ vars_upperbound[AccelIdx] = AccelBound

C2_Witness ==
    /\ pc = "returned" /\ N = N_src /\ solution.status = "success"
    /\ WithinVarBounds(solution.x)
    /\ return_val[1] = -SteerBound /\ return_val[2] = -AccelBound

\* C3: in the dynamics rows for every t in [1, N), the steering and the
\* acceleration entries used are those of actuator index max(t - 2, 0).
C3_LatencyRule ==
    (pc = "evaluated" /\ N >= 2) =>
        \A t \in 1..(N - 1) :
            /\ fg[1 + idxPsi + t].act = <<[block |-> "delta", idx |-> idxDelta + Max(t - 2, 0)]>>
            /\ fg[1 + idxEpsi + t].act = <<[block |-> "delta", idx |-> idxDelta + Max(t - 2, 0)]>>
            /\ fg[1 + idxV + t].act = <<[block |-> "a", idx |-> idxA + Max(t - 2, 0)]>>

C3_Witness ==
    /\ pc = "evaluated" /\ N >= 3
    /\ fg[1 + idxPsi + 1].act[1].idx = idxDelta
    /\ fg[1 + idxPsi + 2].act[1].idx = idxDelta
    /\ fg[1 + idxV + 2].act[1].idx = idxA

\* C4: for N >= 2 the vector has length 6N + 2(N-1) and the eight blocks, in
\* the order x, y, psi, v, cte, epsi, delta, a with lengths N (state) and
\* N - 1 (actuators), follow one another from 0 to the end: every index lies
\* in exactly one block.
C4_LayoutPartition ==
    (InCall /\ N >= 2) =>
        /\ n_vars = 6 * N + 2 * (N - 1)
        /\ Off(Blocks[1]) = 0
        /\ \A k \in 1..(Len(Blocks) - 1) :
               Off(Blocks[k + 1]) = Off(Blocks[k]) + BlockLen(Blocks[k])
        /\ Off(Blocks[Len(Blocks)]) + BlockLen(Blocks[Len(Blocks)]) = n_vars
        /\ \A i \in 0..(n_vars - 1) :
               Cardinality({b \in BlockNames : i \in BlockRange(b)}) = 1

C4_Witness ==
    /\ pc = "built" /\ N = N_src /\ n_vars = 78
    /\ idxDelta = 60 /\ idxA = 69

\* the constraint bounds Solve builds: equal, zero off the six t = 0 indices,
\* the state's component on them
ConstraintBoundsPinState ==
    /\ DOMAIN constraints_lowerbound = 0..(6 * N - 1)
    /\ DOMAIN constraints_upperbound = 0..(6 * N - 1)
    /\ \A i \in 0..(6 * N - 1) :
           /\ constraints_lowerbound[i] = constraints_upperbound[i]
           /\ constraints_lowerbound[i] = IF i \in T0Indices THEN StateAt(i) ELSE 0

\* C5: in every call the constraint bounds are equal at each of the 6N
\* indices, zero except at the six t = 0 indices where they are the state's
\* component, and a vector whose t = 0 constraint values lie within them has
\* the state's components at the six t = 0 entries.
C5_BoundsPinFirstState ==
    /\ InCall => ConstraintBoundsPinState
    /\ (pc = "evaluated" /\ N >= 2 /\ WithinConstraintBounds(fg)) =>
           \A k \in 0..5 : iterate[T0(k)] = state[k]

C5_Witness ==
    /\ pc = "evaluated" /\ N = N_src /\ WithinConstraintBounds(fg)
    /\ iterate # vars
    /\ \A k \in 0..5 : state[k] # 0 /\ constraints_upperbound[T0(k)] = state[k]

\* C6: for N >= 2 the returned sequence has length 2 + 2(N-1); element 0 is
\* delta(0), element 1 is a(0), elements 2t and 2t+1 are x(t) and y(t) for
\* t = 1..N-1 (return_val[k + 1] is element k).
C6_ReturnLayout ==
    (pc = "returned" /\ N >= 2) =>
        /\ Len(return_val) = 2 + 2 * (N - 1)
        /\ return_val[0 + 1] = solution.x[idxDelta + 0]
        /\ return_val[1 + 1] = solution.x[idxA + 0]
        /\ \A t \in 1..(N - 1) :
               /\ return_val[2 * t + 1] = solution.x[idxX + t]
               /\ return_val[2 * t + 1 + 1] = solution.x[idxY + t]

C6_Witness ==
    /\ pc = "returned" /\ N = N_src
    /\ solution.x = Raw(1)
    /\ Len(return_val) = 20 /\ return_val[1] = 61 /\ return_val[20] = 20

\* C7: with N < 2 construction fails; control never reaches an evaluation of
\* the cost and constraint function by the solver.
C7_DegenerateHorizonRejected ==
    N < 2 => pc \notin {"evaluated", "crashed", "solved", "returned"}

\* C8 as stated: each t = 0 constraint entry is variable(block,0) - state(block).
C8_EntryIsDifference ==
    (pc = "evaluated" /\ N >= 2) =>
        \A k \in 0..5 : fg[1 + T0(k)].val = iterate[T0(k)] - state[k]

\* C8, amended: each t = 0 constraint entry is variable(block,0) itself, both
\* of its bounds are state(block), and so it lies within its bounds exactly
\* when the t = 0 variable equals the state's component.
C8_EntryIsVariable ==
    (pc = "evaluated" /\ N >= 2) =>
        \A k \in 0..5 :
            /\ fg[1 + T0(k)].kind = "init"
            /\ fg[1 + T0(k)].val = iterate[T0(k)]
            /\ constraints_lowerbound[T0(k)] = state[k]
            /\ constraints_upperbound[T0(k)] = state[k]
            /\ ( /\ constraints_lowerbound[T0(k)] <= fg[1 + T0(k)].val
                 /\ fg[1 + T0(k)].val <= constraints_upperbound[T0(k)] )
               <=> iterate[T0(k)] = state[k]

C8_Witness ==
    /\ pc = "evaluated" /\ N >= 2
    /\ \A k \in 0..5 : state[k] # 0 /\ fg[1 + T0(k)].val = state[k]

\* the problem handed to the solver, written from (state, coeffs) and N alone
ProblemFromInputs ==
    /\ n_vars = 6 * N + 2 * (N - 1)
    /\ n_constraints = 6 * N
    /\ vars = [i \in 0..(n_vars - 1) |-> IF i \in T0Indices THEN StateAt(i) ELSE 0]
    /\ vars_lowerbound = [i \in 0..(n_vars - 1) |->
           IF i < 6 * N THEN -StateBound
           ELSE IF i < 7 * N - 1 THEN -SteerBound ELSE -AccelBound]
    /\ vars_upperbound = [i \in 0..(n_vars - 1) |->
           IF i < 6 * N THEN StateBound
           ELSE IF i < 7 * N - 1 THEN SteerBound ELSE AccelBound]
    /\ constraints_lowerbound =
           [i \in 0..(n_constraints - 1) |-> IF i \in T0Indices THEN StateAt(i) ELSE 0]
    /\ constraints_upperbound = constraints_lowerbound
    /\ fg_coeffs = coeffs

\* C9: no step changes the configuration (N, dt, the block offsets, ref_v;
\* Lf is a constant), and whenever Solve has built a problem, after any
\* earlier calls, that problem is the one determined by this call's state and
\* coeffs.
C9_Stateless ==
    [][ /\ globals' = globals
        /\ (pc' = "built" => ProblemFromInputs') ]_vars_all

C9_Witness ==
    /\ pc = "built" /\ N = N_src
    /\ return_val # <<>> /\ return_val[3] # 0
    /\ state[0] = 0 /\ vars[idxX + 1] = 0

\* C10: for N >= 2 one evaluation reads vars only inside [0, 6N + 2(N-1)) and
\* inside the block each read names, the cost holds the terms of the tracking
\* (t < N), effort (t < N-1) and smoothness (t < N-2) loops, and fg is
\* assigned at index 0 and at each index 1..6N exactly once, nowhere else.
C10_AccessesInRange ==
    (pc = "evaluated" /\ N >= 2) =>
        /\ \A r \in FG_reads(fg_log) :
               /\ 0 <= r.idx /\ r.idx < 6 * N + 2 * (N - 1)
               /\ r.idx \in BlockRange(r.block)
        /\ Len(fg[0].terms) = 3 * N + 3 * (N - 1) + 2 * (N - 2)
        /\ FG_writes(fg_log) = 0..(6 * N)
        /\ \A i \in 1..(6 * N) : Cardinality(FG_writers(fg_log, i)) = 1

C10_Witness ==
    /\ pc = "evaluated" /\ N = N_src
    /\ [block |-> "a", idx |-> n_vars - 1] \in FG_reads(fg_log)
    /\ [block |-> "delta", idx |-> idxA - 1] \in FG_reads(fg_log)
    /\ fg[6 * N].kind = "dyn"
====
